---- MODULE Spec2Model ----
(***************************************************************************)
(* rancher-auth-service: the configuration manager and token service of    *)
(* server/auth_server.go and the HTTP handlers that call them.             *)
(*                                                                         *)
(* A Go string is a sequence of one-character strings, so that            *)
(* strings.Join, strings.Split, strings.SplitN, strconv.FormatBool and     *)
(* strconv.ParseBool are computed and not assumed.  Setting keys are never *)
(* taken apart and stay TLA+ strings.                                      *)
(***************************************************************************)
EXTENDS Integers, Sequences, FiniteSets, TLC

\* ------------------------------------------------------- setting keys

accessModeSetting == "api.auth.github.access.mode"
allowedIdentitiesSetting == "api.auth.github.allowed.identities"
providerSetting == "api.auth.provider.configured"
providerNameSetting == "api.auth.provider.name.configured"
securitySetting == "api.security.enabled"

\* The one provider-specific key the modelled provider declares.
clientIDSetting == "api.auth.github.client.id"

GenericSettings ==
  <<accessModeSetting, allowedIdentitiesSetting, securitySetting,
    providerSetting, providerNameSetting>>

Keys ==
  {accessModeSetting, allowedIdentitiesSetting, securitySetting,
   providerSetting, providerNameSetting, clientIDSetting}

\* ------------------------------------------------------------ strings

EmptyString == <<>>

str_true == <<"t", "r", "u", "e">>
str_false == <<"f", "a", "l", "s", "e">>
str_identity == <<"i", "d", "e", "n", "t", "i", "t", "y">>
str_config == <<"c", "o", "n", "f", "i", "g">>
str_github == <<"g", "i", "t", "h", "u", "b">>
str_bogus == <<"b", "o", "g", "u", "s">>
str_restricted == <<"r", "e", "s", "t", "r", "i", "c", "t", "e", "d">>
str_clientid == <<"c", "i", "d">>

\* strings.Join(a, sep)
RECURSIVE Join(_, _)
Join(a, sep) ==
  IF a = <<>> THEN EmptyString
  ELSE IF Len(a) = 1 THEN a[1]
  ELSE a[1] \o sep \o Join(Tail(a), sep)

\* Position of the first occurrence of the character c in s, 0 when absent.
RECURSIVE IndexFrom(_, _, _)
IndexFrom(s, c, i) ==
  IF i > Len(s) THEN 0
  ELSE IF s[i] = c THEN i
  ELSE IndexFrom(s, c, i + 1)

Index(s, c) == IndexFrom(s, c, 1)

\* strings.Split(s, sep) for a one-character separator: always at least one
\* element, the empty string included.
RECURSIVE Split(_, _)
Split(s, c) ==
  LET i == Index(s, c) IN
    IF i = 0 THEN <<s>>
    ELSE <<SubSeq(s, 1, i - 1)>> \o Split(SubSeq(s, i + 1, Len(s)), c)

\* strings.Split in place of strings.SplitN(id, ":", 2): every colon splits.
SplitN2_everyColon(s, c) == Split(s, c)

\* strings.SplitN(s, sep, 2): split at the first separator only.
SplitN2(s, c) ==
  LET i == Index(s, c) IN
    IF i = 0 THEN <<s>>
    ELSE <<SubSeq(s, 1, i - 1), SubSeq(s, i + 1, Len(s))>>

\* strings.HasPrefix
HasPrefix(s, prefix) ==
  Len(s) >= Len(prefix) /\ SubSeq(s, 1, Len(prefix)) = prefix

\* strings.TrimPrefix
TrimPrefix(s, prefix) ==
  IF HasPrefix(s, prefix) THEN SubSeq(s, Len(prefix) + 1, Len(s)) ELSE s

\* strconv.FormatBool
FormatBool(b) == IF b THEN str_true ELSE str_false

\* strconv.ParseBool: the accepted spellings, anything else is an error.
ParseBool(s) ==
  IF s \in {<<"1">>, <<"t">>, <<"T">>, <<"T", "R", "U", "E">>, str_true,
            <<"T", "r", "u", "e">>}
    THEN [value |-> TRUE, err |-> FALSE]
  ELSE IF s \in {<<"0">>, <<"f">>, <<"F">>, <<"F", "A", "L", "S", "E">>,
                 str_false, <<"F", "a", "l", "s", "e">>}
    THEN [value |-> FALSE, err |-> FALSE]
  ELSE [value |-> FALSE, err |-> TRUE]

\* A Go map read: the zero value for a key that is not in the map.
MapGet(m, k) == IF k \in DOMAIN m THEN m[k] ELSE EmptyString

\* ------------------------------------------------------------ data model

\* client.Identity: the fields the server reads and writes.
Identity(id, externalId, externalIdType, login) ==
  [Id |-> id, ExternalId |-> externalId, ExternalIdType |-> externalIdType,
   Type |-> str_identity, Login |-> login]

\* The identities a request's allow-list is drawn from: a user whose id is
\* "u:a" and a group whose external id itself holds a colon, "g:b:c".
idUser == Identity(<<"u", ":", "a">>, <<"a">>, <<"u">>, <<"n">>)
idGroup == Identity(<<"g", ":", "b", ":", "c">>, <<"b", ":", "c">>, <<"g">>, <<"n">>)

Identities == {idUser, idGroup}

\* The allow-lists a request carries: none, one and two identities.
AllowLists == {<<>>, <<idUser>>, <<idUser, idGroup>>}

\* model.AuthConfig: the generic fields and the provider's own field.
AuthConfig(type, providerName, enabled, accessMode, allowed, clientID) ==
  [Type |-> type, Provider |-> providerName, Enabled |-> enabled,
   AccessMode |-> accessMode, AllowedIdentities |-> allowed,
   ClientID |-> clientID]

\* The zero value of model.AuthConfig.
ZeroAuthConfig ==
  AuthConfig(EmptyString, EmptyString, FALSE, EmptyString, <<>>, EmptyString)

ProviderNames == {EmptyString, str_github, str_bogus}
AccessModes == {str_restricted}
ClientIDs == {EmptyString, str_clientid}

\* The configs a POST /authconfig body decodes to.
AuthConfigs ==
  {AuthConfig(EmptyString, p, e, m, a, c) :
     p \in ProviderNames, e \in BOOLEAN, m \in AccessModes,
     a \in AllowLists, c \in ClientIDs}

str_bearer == <<"B", "e", "a", "r", "e", "r", " ">>
str_token == <<"t", "k">>
str_code == <<"c", "d">>

\* The Authorization headers of a request: absent, well formed, and one
\* without the "Bearer " prefix.
AuthHeaders == {EmptyString, str_bearer \o str_token, str_token}

\* The allow-list entries the provider may know.
EntryIds == {i.Id : i \in Identities}

\* ---------------------------------------------------- identity provider

\* A nil providers.IdentityProvider.
NilProvider == [nil |-> TRUE, name |-> EmptyString, clientID |-> EmptyString]

RegisteredProviders == {str_github}

\* providers.GetProvider: a zero-value instance of a registered provider,
\* nil for any other name.
GetProvider(name) ==
  IF name \in RegisteredProviders
    THEN [nil |-> FALSE, name |-> name, clientID |-> EmptyString]
  ELSE NilProvider

\* IdentityProvider.LoadConfig: rejects a config whose required field is
\* missing, otherwise absorbs the provider's field.
LoadConfig(p, authConfig) ==
  IF authConfig.ClientID = EmptyString
    THEN [err |-> TRUE, provider |-> p]
  ELSE [err |-> FALSE, provider |-> [p EXCEPT !.clientID = authConfig.ClientID]]

\* IdentityProvider.GetSettings
GetSettings(p) == (clientIDSetting :> p.clientID)

\* IdentityProvider.GetProviderSettingList
GetProviderSettingList(p) == <<clientIDSetting>>

\* IdentityProvider.AddProviderConfig
AddProviderConfig(config, settings) ==
  [config EXCEPT !.ClientID = MapGet(settings, clientIDSetting)]

\* IdentityProvider.GetIdentity: the provider resolves the entries in
\* `resolvable` and fails for every other one.
ProviderGetIdentity(p, externalId, externalIdType, accessToken, resolvable) ==
  LET id == externalIdType \o <<":">> \o externalId IN
    IF id \in resolvable
      THEN [err |-> FALSE,
            identity |-> Identity(id, externalId, externalIdType, <<"n">>)]
    ELSE [err |-> TRUE,
          identity |-> Identity(EmptyString, EmptyString, EmptyString, EmptyString)]

\* ---------------------------------------------------------- settings store

\* What the store does during one operation: the call `op` on `key` fails
\* (NoFault: no call does).  failed says whether the failing call was made,
\* postFail counts the store calls made after it, updates the Update calls
\* issued, touched the keys a call was made for.
NoFault == [key |-> "", op |-> ""]

NewIO(fault) ==
  [fault |-> fault, failed |-> FALSE, postFail |-> 0, updates |-> 0,
   touched |-> {}]

StoreCallFails(io, key, op) == io.fault = [key |-> key, op |-> op]

StoreCall(io, key, op) ==
  [io EXCEPT !.failed = @ \/ StoreCallFails(io, key, op),
             !.postFail = @ + (IF io.failed THEN 1 ELSE 0),
             !.updates = @ + (IF op = "Update" THEN 1 ELSE 0),
             !.touched = @ \cup {key}]

\* rancherClient.Setting.ById(key)
SettingById(store, key, io) ==
  [err |-> StoreCallFails(io, key, "ById"), ActiveValue |-> store[key],
   io |-> StoreCall(io, key, "ById")]

\* rancherClient.Setting.Update(setting, &client.Setting{Value: value})
SettingUpdate(store, key, value, io) ==
  [err |-> StoreCallFails(io, key, "Update"),
   store |-> IF StoreCallFails(io, key, "Update") THEN store
             ELSE [store EXCEPT ![key] = value],
   io |-> StoreCall(io, key, "Update")]

RECURSIVE readSettingsLoop(_, _, _, _)
readSettingsLoop(settings, store, dbSettings, io) ==
  IF settings = <<>> THEN [dbSettings |-> dbSettings, err |-> FALSE, io |-> io]
  ELSE
    LET key == Head(settings)
        got == SettingById(store, key, io)
    IN IF got.err
         THEN [dbSettings |-> dbSettings, err |-> TRUE, io |-> got.io]
       ELSE readSettingsLoop(Tail(settings), store,
                             (key :> got.ActiveValue) @@ dbSettings, got.io)

\* readSettings: the keys in the order given, stopping at the first failed read.
readSettings(settings, store, io) ==
  readSettingsLoop(settings, store, <<>>, io)

\* updateSettings that does not return on a failed Update (lines 151-154).
RECURSIVE updateSettings_ignoreUpdateErr(_, _, _, _)
updateSettings_ignoreUpdateErr(settings, order, store, io) ==
  IF order = <<>> THEN [err |-> FALSE, store |-> store, io |-> io]
  ELSE
    LET key == Head(order)
        value == settings[key]
    IN IF value # EmptyString
         THEN LET got == SettingById(store, key, io) IN
                IF got.err
                  THEN [err |-> TRUE, store |-> store, io |-> got.io]
                ELSE LET upd == SettingUpdate(store, key, value, got.io) IN
                       updateSettings_ignoreUpdateErr(settings, Tail(order),
                                                      upd.store, upd.io)
       ELSE updateSettings_ignoreUpdateErr(settings, Tail(order), store, io)

\* updateSettings without the test of line 142: empty values are written too.
RECURSIVE updateSettings_writesEmpty(_, _, _, _)
updateSettings_writesEmpty(settings, order, store, io) ==
  IF order = <<>> THEN [err |-> FALSE, store |-> store, io |-> io]
  ELSE
    LET key == Head(order)
        value == settings[key]
        got == SettingById(store, key, io)
    IN IF got.err
         THEN [err |-> TRUE, store |-> store, io |-> got.io]
       ELSE LET upd == SettingUpdate(store, key, value, got.io) IN
              IF upd.err
                THEN [err |-> TRUE, store |-> store, io |-> upd.io]
              ELSE updateSettings_writesEmpty(settings, Tail(order),
                                              upd.store, upd.io)

\* updateSettings: `order` is the order in which the range over the map
\* visits its keys.  A key with an empty value is skipped; the first failed
\* read or update ends the loop.
RECURSIVE updateSettings(_, _, _, _)
updateSettings(settings, order, store, io) ==
  IF order = <<>> THEN [err |-> FALSE, store |-> store, io |-> io]
  ELSE
    LET key == Head(order)
        value == settings[key]
    IN IF value # EmptyString
         THEN LET got == SettingById(store, key, io) IN
                IF got.err
                  THEN [err |-> TRUE, store |-> store, io |-> got.io]
                ELSE LET upd == SettingUpdate(store, key, value, got.io) IN
                       IF upd.err
                         THEN [err |-> TRUE, store |-> store, io |-> upd.io]
                       ELSE updateSettings(settings, Tail(order), upd.store, upd.io)
       ELSE updateSettings(settings, Tail(order), store, io)

\* ------------------------------------------------------- server operations

\* initProviderWithConfig without the nil check of line 114.
initProviderWithConfig_noNilCheck(authConfig) ==
  LET newProvider == GetProvider(authConfig.Provider)
      loaded == LoadConfig(newProvider, authConfig)
  IN IF loaded.err
       THEN [provider |-> NilProvider, err |-> TRUE, loadFailed |-> TRUE]
     ELSE [provider |-> loaded.provider, err |-> FALSE, loadFailed |-> FALSE]

\* initProviderWithConfig
initProviderWithConfig(authConfig) ==
  LET newProvider == GetProvider(authConfig.Provider) IN
    IF newProvider.nil
      THEN [provider |-> NilProvider, err |-> TRUE, loadFailed |-> FALSE]
    ELSE LET loaded == LoadConfig(newProvider, authConfig) IN
           IF loaded.err
             THEN [provider |-> NilProvider, err |-> TRUE, loadFailed |-> TRUE]
           ELSE [provider |-> loaded.provider, err |-> FALSE, loadFailed |-> FALSE]

RECURSIVE identityIds(_)
identityIds(identities) ==
  IF identities = <<>> THEN <<>>
  ELSE <<Head(identities).Id>> \o identityIds(Tail(identities))

\* getAllowedIDString: reads the package-level provider, the one active
\* before the call.
getAllowedIDString(allowedIdentities, activeProvider) ==
  IF ~activeProvider.nil
    THEN Join(identityIds(allowedIdentities), <<",">>)
  ELSE EmptyString

\* The stub identity of lines 196-201.
stubIdentity(id, parts) ==
  [Id |-> id, ExternalId |-> parts[2], ExternalIdType |-> parts[1],
   Type |-> str_identity, Login |-> EmptyString]

\* The arguments of one provider.GetIdentity call (line 189).
GetIdentityCall(parts, accessToken) ==
  [externalId |-> parts[2], externalIdType |-> parts[1],
   accessToken |-> accessToken]

\* The loop of lines 177-203 with a break in place of the continue of
\* line 184: an entry without a colon ends the resolution.
RECURSIVE allowedIdentitiesLoop_stopsAtMalformed(_, _, _, _)
allowedIdentitiesLoop_stopsAtMalformed(externalIDList, accessToken, activeProvider, resolvable) ==
  IF externalIDList = <<>> THEN [identities |-> <<>>, calls |-> <<>>]
  ELSE
    LET id == Head(externalIDList)
        parts == SplitN2(id, ":")
        rest == allowedIdentitiesLoop_stopsAtMalformed(Tail(externalIDList),
                                                       accessToken, activeProvider,
                                                       resolvable)
    IN IF Len(parts) < 2 THEN [identities |-> <<>>, calls |-> <<>>]
       ELSE IF ~activeProvider.nil /\ accessToken # EmptyString
         THEN LET got == ProviderGetIdentity(activeProvider, parts[2], parts[1],
                                             accessToken, resolvable)
              IN [identities |->
                    <<IF ~got.err THEN got.identity ELSE stubIdentity(id, parts)>>
                    \o rest.identities,
                  calls |-> <<GetIdentityCall(parts, accessToken)>> \o rest.calls]
       ELSE [identities |-> <<stubIdentity(id, parts)>> \o rest.identities,
             calls |-> rest.calls]

\* The loop of lines 177-203 without the token test of line 187.
RECURSIVE allowedIdentitiesLoop_ignoresToken(_, _, _, _)
allowedIdentitiesLoop_ignoresToken(externalIDList, accessToken, activeProvider, resolvable) ==
  IF externalIDList = <<>> THEN [identities |-> <<>>, calls |-> <<>>]
  ELSE
    LET id == Head(externalIDList)
        parts == SplitN2(id, ":")
        rest == allowedIdentitiesLoop_ignoresToken(Tail(externalIDList), accessToken,
                                                   activeProvider, resolvable)
    IN IF Len(parts) < 2 THEN rest
       ELSE IF ~activeProvider.nil
         THEN LET got == ProviderGetIdentity(activeProvider, parts[2], parts[1],
                                             accessToken, resolvable)
              IN [identities |->
                    <<IF ~got.err THEN got.identity ELSE stubIdentity(id, parts)>>
                    \o rest.identities,
                  calls |-> <<GetIdentityCall(parts, accessToken)>> \o rest.calls]
       ELSE [identities |-> <<stubIdentity(id, parts)>> \o rest.identities,
             calls |-> rest.calls]

\* The loop of lines 177-203: the identities appended and the
\* provider.GetIdentity calls made, both in order.
RECURSIVE allowedIdentitiesLoop(_, _, _, _)
allowedIdentitiesLoop(externalIDList, accessToken, activeProvider, resolvable) ==
  IF externalIDList = <<>> THEN [identities |-> <<>>, calls |-> <<>>]
  ELSE
    LET id == Head(externalIDList)
        parts == SplitN2(id, ":")
        rest == allowedIdentitiesLoop(Tail(externalIDList), accessToken,
                                      activeProvider, resolvable)
    IN IF Len(parts) < 2 THEN rest
       ELSE IF ~activeProvider.nil /\ accessToken # EmptyString
         THEN LET got == ProviderGetIdentity(activeProvider, parts[2], parts[1],
                                             accessToken, resolvable)
              IN [identities |->
                    <<IF ~got.err THEN got.identity ELSE stubIdentity(id, parts)>>
                    \o rest.identities,
                  calls |-> <<GetIdentityCall(parts, accessToken)>> \o rest.calls]
       ELSE [identities |-> <<stubIdentity(id, parts)>> \o rest.identities,
             calls |-> rest.calls]

\* getAllowedIdentities
getAllowedIdentities(idString, accessToken, activeProvider, resolvable) ==
  IF idString # EmptyString
    THEN allowedIdentitiesLoop(Split(idString, ","), accessToken,
                               activeProvider, resolvable)
  ELSE [identities |-> <<>>, calls |-> <<>>]

\* configSettings without the test of line 225: the "configured provider"
\* key is set whatever authConfig.Enabled is.
configSettings_alwaysConfigured(authConfig, newProvider, activeProvider) ==
  (providerSetting :> authConfig.Provider)
  @@ (accessModeSetting :> authConfig.AccessMode)
  @@ (allowedIdentitiesSetting :>
        getAllowedIDString(authConfig.AllowedIdentities, activeProvider))
  @@ (securitySetting :> FormatBool(authConfig.Enabled))
  @@ (providerNameSetting :> authConfig.Provider)
  @@ GetSettings(newProvider)

\* The settings map UpdateConfig builds (lines 218-227): the provider's
\* settings, overwritten by the generic ones.
configSettings(authConfig, newProvider, activeProvider) ==
  LET generic ==
        (accessModeSetting :> authConfig.AccessMode)
        @@ (allowedIdentitiesSetting :>
              getAllowedIDString(authConfig.AllowedIdentities, activeProvider))
        @@ (securitySetting :> FormatBool(authConfig.Enabled))
        @@ (providerNameSetting :> authConfig.Provider)
      configured ==
        IF authConfig.Enabled
          THEN (providerSetting :> authConfig.Provider)
        ELSE <<>>
  IN configured @@ generic @@ GetSettings(newProvider)

\* The keys of the map UpdateConfig hands to updateSettings: none when the
\* provider cannot be initialised, as the map is never built.
updateConfigKeys(authConfig, activeProvider) ==
  LET init == initProviderWithConfig(authConfig) IN
    IF init.err THEN {}
    ELSE DOMAIN configSettings(authConfig, init.provider, activeProvider)

\* UpdateConfig that switches the in-memory pair before the provider is
\* validated.
UpdateConfig_swapBeforeValidate(authConfig, activeProvider, activeConfig, store, order, io) ==
  LET init == initProviderWithConfig(authConfig) IN
    IF init.err
      THEN [err |-> TRUE, provider |-> GetProvider(authConfig.Provider),
            config |-> authConfig, store |-> store, io |-> io,
            loadFailed |-> init.loadFailed]
    ELSE
      LET providerSettings == configSettings(authConfig, init.provider, activeProvider)
          wrote == updateSettings(providerSettings, order, store, io)
      IN [err |-> wrote.err, provider |-> init.provider, config |-> authConfig,
          store |-> wrote.store, io |-> wrote.io, loadFailed |-> FALSE]

\* UpdateConfig without the assignment of line 234.
UpdateConfig_keepsProvider(authConfig, activeProvider, activeConfig, store, order, io) ==
  LET init == initProviderWithConfig(authConfig) IN
    IF init.err
      THEN [err |-> TRUE, provider |-> activeProvider, config |-> activeConfig,
            store |-> store, io |-> io, loadFailed |-> init.loadFailed]
    ELSE
      LET providerSettings == configSettings(authConfig, init.provider, activeProvider)
          wrote == updateSettings(providerSettings, order, store, io)
      IN IF wrote.err
           THEN [err |-> TRUE, provider |-> activeProvider, config |-> activeConfig,
                 store |-> wrote.store, io |-> wrote.io, loadFailed |-> FALSE]
         ELSE [err |-> FALSE, provider |-> activeProvider, config |-> authConfig,
               store |-> wrote.store, io |-> wrote.io, loadFailed |-> FALSE]

\* UpdateConfig (server).  `order` is the map iteration order of the
\* settings write, io the store's behaviour during the call.
UpdateConfig(authConfig, activeProvider, activeConfig, store, order, io) ==
  LET init == initProviderWithConfig(authConfig) IN
    IF init.err
      THEN [err |-> TRUE, provider |-> activeProvider, config |-> activeConfig,
            store |-> store, io |-> io, loadFailed |-> init.loadFailed]
    ELSE
      LET providerSettings == configSettings(authConfig, init.provider, activeProvider)
          wrote == updateSettings(providerSettings, order, store, io)
      IN IF wrote.err
           THEN [err |-> TRUE, provider |-> activeProvider, config |-> activeConfig,
                 store |-> wrote.store, io |-> wrote.io, loadFailed |-> FALSE]
         ELSE [err |-> FALSE, provider |-> init.provider, config |-> authConfig,
               store |-> wrote.store, io |-> wrote.io, loadFailed |-> FALSE]

\* GetConfig without the nil check of lines 280-282.
GetConfig_noProviderCheck(accessToken, activeProvider, store, resolvable, io) ==
  LET config0 == [ZeroAuthConfig EXCEPT !.Type = str_config]
      generic == readSettings(GenericSettings, store, io)
  IN IF generic.err
       THEN [config |-> config0, err |-> TRUE, io |-> generic.io,
             identityCalls |-> <<>>, store |-> store,
             provider |-> activeProvider]
     ELSE
       LET dbSettings == generic.dbSettings
           parsed == ParseBool(MapGet(dbSettings, securitySetting))
           allowed ==
             getAllowedIdentities(MapGet(dbSettings, allowedIdentitiesSetting),
                                  accessToken, activeProvider, resolvable)
           config ==
             [config0 EXCEPT
                !.AccessMode = MapGet(dbSettings, accessModeSetting),
                !.AllowedIdentities = allowed.identities,
                !.Enabled = IF ~parsed.err THEN parsed.value ELSE FALSE,
                !.Provider = MapGet(dbSettings, providerNameSetting)]
           newProvider == GetProvider(config.Provider)
           specific == readSettings(GetProviderSettingList(newProvider),
                                    store, generic.io)
       IN [config |-> AddProviderConfig(config, specific.dbSettings),
           err |-> FALSE, io |-> specific.io, identityCalls |-> allowed.calls,
           store |-> store, provider |-> activeProvider]

\* GetConfig with `provider = providers.GetProvider(...)` in place of the
\* local newProvider of line 279: the instance it creates becomes the
\* active one.
GetConfig_assignsProvider(accessToken, activeProvider, store, resolvable, io) ==
  LET config0 == [ZeroAuthConfig EXCEPT !.Type = str_config]
      generic == readSettings(GenericSettings, store, io)
  IN IF generic.err
       THEN [config |-> config0, err |-> TRUE, io |-> generic.io,
             identityCalls |-> <<>>, store |-> store,
             provider |-> activeProvider]
     ELSE
       LET dbSettings == generic.dbSettings
           parsed == ParseBool(MapGet(dbSettings, securitySetting))
           allowed ==
             getAllowedIdentities(MapGet(dbSettings, allowedIdentitiesSetting),
                                  accessToken, activeProvider, resolvable)
           config ==
             [config0 EXCEPT
                !.AccessMode = MapGet(dbSettings, accessModeSetting),
                !.AllowedIdentities = allowed.identities,
                !.Enabled = IF ~parsed.err THEN parsed.value ELSE FALSE,
                !.Provider = MapGet(dbSettings, providerNameSetting)]
           newProvider == GetProvider(config.Provider)
       IN IF newProvider.nil
            THEN [config |-> config, err |-> TRUE, io |-> generic.io,
                  identityCalls |-> allowed.calls, store |-> store,
                  provider |-> newProvider]
          ELSE
            LET specific == readSettings(GetProviderSettingList(newProvider),
                                         store, generic.io)
            IN [config |-> AddProviderConfig(config, specific.dbSettings),
                err |-> FALSE, io |-> specific.io,
                identityCalls |-> allowed.calls, store |-> store,
                provider |-> newProvider]

\* GetConfig: reads the store and the package-level provider and assigns
\* neither.
GetConfig(accessToken, activeProvider, store, resolvable, io) ==
  LET config0 == [ZeroAuthConfig EXCEPT !.Type = str_config]
      generic == readSettings(GenericSettings, store, io)
  IN IF generic.err
       THEN [config |-> config0, err |-> TRUE, io |-> generic.io,
             identityCalls |-> <<>>, store |-> store,
             provider |-> activeProvider]
     ELSE
       LET dbSettings == generic.dbSettings
           parsed == ParseBool(MapGet(dbSettings, securitySetting))
           allowed ==
             getAllowedIdentities(MapGet(dbSettings, allowedIdentitiesSetting),
                                  accessToken, activeProvider, resolvable)
           config ==
             [config0 EXCEPT
                !.AccessMode = MapGet(dbSettings, accessModeSetting),
                !.AllowedIdentities = allowed.identities,
                !.Enabled = IF ~parsed.err THEN parsed.value ELSE FALSE,
                !.Provider = MapGet(dbSettings, providerNameSetting)]
           newProvider == GetProvider(config.Provider)
       IN IF newProvider.nil
            THEN [config |-> config, err |-> TRUE, io |-> generic.io,
                  identityCalls |-> allowed.calls, store |-> store,
                  provider |-> activeProvider]
          ELSE
            LET specific == readSettings(GetProviderSettingList(newProvider),
                                         store, generic.io)
            IN [config |-> AddProviderConfig(config, specific.dbSettings),
                err |-> FALSE, io |-> specific.io,
                identityCalls |-> allowed.calls, store |-> store,
                provider |-> activeProvider]

\* Reload without the error check of lines 296-299.
Reload_ignoresInitErr(activeProvider, activeConfig, store, io) ==
  LET got == GetConfig(EmptyString, activeProvider, store, {}, io)
      init == initProviderWithConfig(got.config)
  IN [err |-> init.err, provider |-> init.provider, config |-> got.config,
      loaded |-> got.config, io |-> got.io, loadFailed |-> init.loadFailed,
      identityCalls |-> got.identityCalls, store |-> store]

\* Reload that persists the config it loaded, as UpdateConfig does.
Reload_persists(activeProvider, activeConfig, store, io) ==
  LET got == GetConfig(EmptyString, activeProvider, store, {}, io)
      init == initProviderWithConfig(got.config)
  IN IF init.err
       THEN [err |-> TRUE, provider |-> activeProvider, config |-> activeConfig,
             loaded |-> got.config, io |-> got.io, loadFailed |-> init.loadFailed,
             identityCalls |-> got.identityCalls, store |-> store]
     ELSE
       LET providerSettings == configSettings(got.config, init.provider, activeProvider)
           wrote == updateSettings(providerSettings,
                                   SelectSeq(GenericSettings \o <<clientIDSetting>>,
                                             LAMBDA k : k \in DOMAIN providerSettings),
                                   store, got.io)
       IN [err |-> wrote.err, provider |-> init.provider, config |-> got.config,
           loaded |-> got.config, io |-> wrote.io, loadFailed |-> FALSE,
           identityCalls |-> got.identityCalls, store |-> wrote.store]

\* Reload: reads the store and never writes it.
Reload(activeProvider, activeConfig, store, io) ==
  LET got == GetConfig(EmptyString, activeProvider, store, {}, io)
      init == initProviderWithConfig(got.config)
  IN IF init.err
       THEN [err |-> TRUE, provider |-> activeProvider, config |-> activeConfig,
             loaded |-> got.config, io |-> got.io, loadFailed |-> init.loadFailed,
             identityCalls |-> got.identityCalls, store |-> got.store]
     ELSE [err |-> FALSE, provider |-> init.provider, config |-> got.config,
           loaded |-> got.config, io |-> got.io, loadFailed |-> FALSE,
           identityCalls |-> got.identityCalls, store |-> got.store]

str_jwt == <<"j", "w", "t">>
str_account == <<"a", "c", "c">>

\* model.Token: what GenerateToken and RefreshToken of a provider return.
ProviderToken(identityList) ==
  [Type |-> str_jwt, ExternalAccountID |-> str_account,
   AccessToken |-> <<"t", "k">>, IdentityList |-> identityList]

\* The outcomes of provider.GenerateToken / provider.RefreshToken: an error,
\* or a token with no, one or two identity records.
ProviderExchanges ==
  {[err |-> TRUE, token |-> ProviderToken(<<>>)]}
  \cup {[err |-> FALSE, token |-> ProviderToken(l)] : l \in AllowLists}

\* identitiesToIDList with the external id in place of the id.
RECURSIVE identitiesToIDList_externalIds(_)
identitiesToIDList_externalIds(identities) ==
  IF identities = <<>> THEN <<>>
  ELSE <<Head(identities).ExternalId>>
       \o identitiesToIDList_externalIds(Tail(identities))

\* identitiesToIDList
RECURSIVE identitiesToIDList(_)
identitiesToIDList(identities) ==
  IF identities = <<>> THEN <<>>
  ELSE <<Head(identities).Id>> \o identitiesToIDList(Tail(identities))

\* No payload was built.
NoPayload ==
  [token |-> EmptyString, account_id |-> EmptyString,
   access_token |-> EmptyString, idList |-> <<>>, identities |-> <<>>,
   built |-> FALSE]

\* The claims payload of lines 313-318 and 333-338.
tokenPayload(token) ==
  [token |-> token.Type, account_id |-> token.ExternalAccountID,
   access_token |-> token.AccessToken,
   idList |-> identitiesToIDList(token.IdentityList),
   identities |-> token.IdentityList, built |-> TRUE]

\* CreateToken and RefreshToken without the test of lines 307 and 327.
TokenRequest_noNilCheck(activeProvider, exchange, signOk) ==
  IF exchange.err
    THEN [err |-> TRUE, errKind |-> "provider", providerCalled |-> TRUE,
          providerFailed |-> TRUE, signed |-> FALSE, payload |-> NoPayload]
  ELSE [err |-> ~signOk, errKind |-> IF signOk THEN "" ELSE "signing",
        providerCalled |-> TRUE, providerFailed |-> FALSE,
        signed |-> signOk, payload |-> tokenPayload(exchange.token)]

\* CreateToken and RefreshToken (server): `exchange` is what the provider's
\* GenerateToken / RefreshToken returns, signOk whether
\* util.CreateTokenWithPayload signs the payload.
TokenRequest(activeProvider, exchange, signOk) ==
  IF ~activeProvider.nil
    THEN IF exchange.err
           THEN [err |-> TRUE, errKind |-> "provider", providerCalled |-> TRUE,
                 providerFailed |-> TRUE, signed |-> FALSE,
                 payload |-> NoPayload]
         ELSE [err |-> ~signOk, errKind |-> IF signOk THEN "" ELSE "signing",
               providerCalled |-> TRUE, providerFailed |-> FALSE,
               signed |-> signOk, payload |-> tokenPayload(exchange.token)]
  ELSE [err |-> TRUE, errKind |-> "NoProviderConfigured",
        providerCalled |-> FALSE, providerFailed |-> FALSE, signed |-> FALSE,
        payload |-> NoPayload]

\* GetIdentities, GetIdentity and SearchIdentities (server): the provider's
\* method when a provider is active, an error otherwise.
IdentityLookup(activeProvider, providerOk) ==
  IF ~activeProvider.nil
    THEN [err |-> ~providerOk, providerCalled |-> TRUE]
  ELSE [err |-> TRUE, providerCalled |-> FALSE]

\* ------------------------------------------------------------------ state

\* Store calls that fail in one behaviour.
MaxFaults == 1

\* Calls of UpdateConfig and Reload that run concurrently in one behaviour.
MaxCalls == 3

VARIABLES
  db,                  \* the settings store: key -> value
  provider,            \* the package-level active provider
  authConfigInMemory,  \* the package-level active config
  last,                \* the request being answered and its outcome
  faults,              \* store calls that have failed so far
  writers,             \* concurrent UpdateConfig/Reload calls: where each is
  calls,               \* UpdateConfig/Reload calls started so far
  providerGen,         \* the call that assigned the active provider
  configGen,           \* the call that assigned the active config
  seen,                \* what the last concurrent reader saw
  resolverIn,          \* the arguments of a getAllowedIdentities call
  resolverOut          \* what that call returned

vars ==
  <<db, provider, authConfigInMemory, last, faults, writers, calls,
    providerGen, configGen, seen, resolverIn, resolverOut>>

\* The variables of the identity resolver taken alone.
resolverVars == <<resolverIn, resolverOut>>

\* The variables of the concurrent view of the swap.
swapVars == <<writers, calls, providerGen, configGen, seen>>

\* The requests that run UpdateConfig or Reload at the same time.
Writers == {1, 2}

IdleWriter ==
  [pc |-> "idle", provider |-> NilProvider, config |-> ZeroAuthConfig, gen |-> 0]

\* The keys in one fixed order.
KeyList ==
  <<clientIDSetting, accessModeSetting, allowedIdentitiesSetting,
    securitySetting, providerNameSetting, providerSetting>>

InOrder(S) == SelectSeq(KeyList, LAMBDA k : k \in S)

\* The orders in which the range over a map with the keys S may visit them,
\* when the store fails on key k.  The loop writes distinct keys and stops at
\* the failing call, so an order matters only through the set of keys it
\* visits before k: one order for each such set.
OrdersFailing(S, k) ==
  {InOrder(W) \o <<k>> \o InOrder(S \ (W \cup {k})) : W \in SUBSET (S \ {k})}

\* What the store may do during a settings write of the keys S.
WriteFaults(S) ==
  IF faults < MaxFaults
    THEN {NoFault} \cup {[key |-> k, op |-> o] : k \in S, o \in {"ById", "Update"}}
  ELSE {NoFault}

WriteOrders(S, fault) ==
  IF fault = NoFault THEN {InOrder(S)} ELSE OrdersFailing(S, fault.key)

\* What the store may do during the reads of GetConfig.
ReadFaults ==
  IF faults < MaxFaults
    THEN {NoFault} \cup {[key |-> k, op |-> "ById"] : k \in Keys}
  ELSE {NoFault}

EmptyStore == [k \in Keys |-> EmptyString]

str_unrestricted == <<"u", "n", "r", "e", "s", "t", "r", "i", "c", "t", "e", "d">>

\* A store left by an earlier run of the service.
ConfiguredStore ==
  (accessModeSetting :> str_unrestricted)
  @@ (allowedIdentitiesSetting :> idGroup.Id \o <<",">> \o idUser.Id)
  @@ (securitySetting :> str_true)
  @@ (providerSetting :> str_github)
  @@ (providerNameSetting :> str_github)
  @@ (clientIDSetting :> str_clientid)

NoRequest ==
  [op |-> "none", arg |-> ZeroAuthConfig, token |-> EmptyString,
   code |-> EmptyString, header |-> EmptyString, callArg |-> EmptyString,
   calls |-> <<>>, err |-> FALSE, errKind |-> "", config |-> ZeroAuthConfig,
   storeFailed |-> FALSE, postFail |-> 0, updates |-> 0, touched |-> {},
   providerCalled |-> FALSE, identityCalls |-> <<>>, resolved |-> {},
   providerFailed |-> FALSE, signed |-> FALSE, payload |-> NoPayload,
   status |-> <<>>]

\* A store whose provider name is one no provider is registered under and
\* whose allow-list holds entries without a colon.
StaleStore ==
  (accessModeSetting :> str_unrestricted)
  @@ (allowedIdentitiesSetting :> <<"x", ",">> \o idUser.Id \o <<",">>)
  @@ (securitySetting :> <<"1">>)
  @@ (providerSetting :> str_bogus)
  @@ (providerNameSetting :> str_bogus)
  @@ (clientIDSetting :> EmptyString)

Idle == last.op = "none"

\* No getAllowedIdentities call is under way.
NoResolverCall ==
  [idString |-> EmptyString, accessToken |-> EmptyString, resolvable |-> {}]

NotResolved == [done |-> FALSE, identities |-> <<>>, calls |-> <<>>]

Init ==
  /\ db \in {EmptyStore, ConfiguredStore, StaleStore}
  /\ provider = NilProvider
  /\ authConfigInMemory = ZeroAuthConfig
  /\ last = NoRequest
  /\ faults = 0
  /\ writers = [w \in Writers |-> IdleWriter]
  /\ calls = 0
  /\ providerGen = 0
  /\ configGen = 0
  /\ seen = [provider |-> 0, config |-> 0]
  /\ resolverIn = NoResolverCall
  /\ resolverOut = NotResolved

\* The bodies of a POST /authconfig: JSON that decodes to a config, bytes
\* that are no JSON, and a body whose read fails; the last two leave the
\* decoded config at its zero value.
UpdateBodies ==
  {[kind |-> "json", config |-> c] : c \in AuthConfigs}
  \cup {[kind |-> "malformed", config |-> ZeroAuthConfig],
        [kind |-> "unreadable", config |-> ZeroAuthConfig]}

\* The error responses the UpdateConfig handler writes before it calls the
\* server (lines 147-164): none of them returns.
updateConfigRejections(body) ==
  (IF body.kind = "unreadable" THEN <<400>> ELSE <<>>)
  \o (IF body.kind # "json" THEN <<400>> ELSE <<>>)
  \o (IF body.config.Provider = EmptyString THEN <<400>> ELSE <<>>)

\* POST /authconfig: the UpdateConfig handler and the server's UpdateConfig.
HandleUpdateConfig ==
  /\ Idle
  /\ \E body \in UpdateBodies :
       LET authConfig == body.config
           keys == updateConfigKeys(authConfig, provider)
       IN \E fault \in WriteFaults(keys) :
          \E order \in WriteOrders(keys, fault) :
          \E r \in {UpdateConfig(authConfig, provider, authConfigInMemory, db,
                                 order, NewIO(fault))} :
            /\ db' = r.store
            /\ provider' = r.provider
            /\ authConfigInMemory' = r.config
            /\ faults' = faults + (IF r.io.failed THEN 1 ELSE 0)
            /\ last' = [NoRequest EXCEPT
                          !.op = "UpdateConfig", !.arg = authConfig,
                          !.calls = <<"UpdateConfig">>, !.err = r.err,
                          !.storeFailed = r.io.failed,
                          !.postFail = r.io.postFail,
                          !.updates = r.io.updates,
                          !.touched = r.io.touched,
                          !.providerFailed = r.loadFailed,
                          !.status = updateConfigRejections(body)
                                     \o (IF r.err THEN <<400>> ELSE <<>>)]
  /\ UNCHANGED swapVars
  /\ UNCHANGED resolverVars

\* The allow-list entries a sequence of GetIdentity calls asked for.
calledIds(identityCalls) ==
  {identityCalls[i].externalIdType \o <<":">> \o identityCalls[i].externalId :
     i \in DOMAIN identityCalls}

\* GET /authconfig: the GetConfig handler and the server's GetConfig.
HandleGetConfig ==
  /\ Idle
  /\ \E authHeader \in AuthHeaders, fault \in ReadFaults :
       LET accessToken ==
             IF authHeader # EmptyString THEN TrimPrefix(authHeader, str_bearer)
             ELSE EmptyString
           rejected ==
             IF authHeader # EmptyString /\ ~HasPrefix(authHeader, str_bearer)
               THEN <<401>> ELSE <<>>
       IN \E resolvable \in (IF ~provider.nil /\ accessToken # EmptyString
                               THEN SUBSET EntryIds ELSE {{}}) :
          \E r \in {GetConfig(accessToken, provider, db, resolvable, NewIO(fault))} :
            /\ db' = r.store
            /\ provider' = r.provider
            /\ faults' = faults + (IF r.io.failed THEN 1 ELSE 0)
            /\ last' = [NoRequest EXCEPT
                          !.op = "GetConfig", !.token = accessToken,
                          !.header = authHeader,
                          !.calls = <<"GetConfig">>, !.err = r.err,
                          !.config = r.config, !.storeFailed = r.io.failed,
                          !.postFail = r.io.postFail,
                          !.updates = r.io.updates,
                          !.touched = r.io.touched,
                          !.identityCalls = r.identityCalls,
                          !.providerCalled = r.identityCalls # <<>>,
                          !.resolved = resolvable \cap calledIds(r.identityCalls),
                          !.status = rejected
                                     \o (IF r.err THEN <<500>> ELSE <<200>>)]
            /\ UNCHANGED authConfigInMemory
  /\ UNCHANGED swapVars
  /\ UNCHANGED resolverVars

\* POST /reloadconfig: the Reload handler and the server's Reload.
HandleReload ==
  /\ Idle
  /\ \E fault \in ReadFaults :
     \E r \in {Reload(provider, authConfigInMemory, db, NewIO(fault))} :
       /\ db' = r.store
       /\ provider' = r.provider
       /\ authConfigInMemory' = r.config
       /\ faults' = faults + (IF r.io.failed THEN 1 ELSE 0)
       /\ last' = [NoRequest EXCEPT
                     !.op = "Reload", !.calls = <<"Reload">>, !.err = r.err,
                     !.config = r.loaded, !.storeFailed = r.io.failed,
                     !.postFail = r.io.postFail,
                     !.updates = r.io.updates,
                     !.touched = r.io.touched,
                     !.identityCalls = r.identityCalls,
                     !.providerCalled = r.identityCalls # <<>>,
                     !.providerFailed = r.loadFailed,
                     !.status = IF r.err THEN <<500>> ELSE <<>>]
  /\ UNCHANGED swapVars
  /\ UNCHANGED resolverVars

\* The bodies of a POST /token: the two fields of the decoded map; a body
\* that does not parse leaves both empty.
TokenBodies ==
  {[code |-> c, accessToken |-> t] :
     c \in {EmptyString, str_code}, t \in {EmptyString, str_token}}

\* tokenRoute that refreshes with an empty access token instead of
\* answering 400.
tokenRoute_noBadRequest(body) ==
  IF body.code # EmptyString THEN <<"CreateToken">> ELSE <<"RefreshToken">>

\* tokenRoute that tests the access token before the code.
tokenRoute_prefersAccessToken(body) ==
  IF body.accessToken # EmptyString THEN <<"RefreshToken">>
  ELSE IF body.code # EmptyString THEN <<"CreateToken">>
  ELSE <<>>

\* The server operation the CreateToken handler calls (lines 36-56): none
\* when neither field is set.
tokenRoute(body) ==
  IF body.code # EmptyString THEN <<"CreateToken">>
  ELSE IF body.accessToken # EmptyString THEN <<"RefreshToken">>
  ELSE <<>>

\* The argument of the call: server.CreateToken(securityCode) (line 38),
\* server.RefreshToken(accessToken) (line 47).
tokenArgument(call, body) ==
  IF call = <<"CreateToken">> THEN body.code ELSE body.accessToken

\* POST /token: the CreateToken handler with the server's CreateToken and
\* RefreshToken.
HandleCreateToken ==
  /\ Idle
  /\ \E body \in TokenBodies, exchange \in ProviderExchanges, signOk \in BOOLEAN :
       LET call == tokenRoute(body)
       IN IF call # <<>>
            THEN \E r \in {TokenRequest(provider, exchange, signOk)} :
                   last' = [NoRequest EXCEPT
                              !.op = "CreateToken", !.calls = call,
                              !.callArg = tokenArgument(call, body),
                              !.code = body.code,
                              !.token = body.accessToken, !.err = r.err,
                              !.errKind = r.errKind,
                              !.providerCalled = r.providerCalled,
                              !.providerFailed = r.providerFailed,
                              !.signed = r.signed,
                              !.payload = r.payload,
                              !.status = IF r.err THEN <<500>> ELSE <<200>>]
          ELSE last' = [NoRequest EXCEPT
                          !.op = "CreateToken", !.code = body.code,
                          !.token = body.accessToken, !.status = <<400>>]
  /\ UNCHANGED <<db, provider, authConfigInMemory, faults>>
  /\ UNCHANGED swapVars
  /\ UNCHANGED resolverVars

\* GET /me/identities: the GetIdentities handler and the server's
\* GetIdentities.  A header without the "Bearer " prefix is answered 401 and
\* the handler goes on with the header as the token.
HandleGetIdentities ==
  /\ Idle
  /\ \E authHeader \in AuthHeaders, providerOk \in BOOLEAN :
       IF authHeader # EmptyString
         THEN LET rejected ==
                    IF ~HasPrefix(authHeader, str_bearer) THEN <<401>> ELSE <<>>
                  accessToken == TrimPrefix(authHeader, str_bearer)
              IN \E r \in {IdentityLookup(provider, providerOk)} :
                   last' = [NoRequest EXCEPT
                              !.op = "GetIdentities", !.header = authHeader,
                              !.token = accessToken,
                              !.calls = <<"GetIdentities">>, !.err = r.err,
                              !.providerCalled = r.providerCalled,
                              !.providerFailed = r.providerCalled /\ r.err,
                              !.status = rejected
                                         \o (IF r.err THEN <<401>> ELSE <<200>>)]
       ELSE last' = [NoRequest EXCEPT !.op = "GetIdentities", !.status = <<401>>]
  /\ UNCHANGED <<db, provider, authConfigInMemory, faults>>
  /\ UNCHANGED swapVars
  /\ UNCHANGED resolverVars

str_name == <<"n">>

\* The filters of a GET /identities query.
SearchQueries ==
  {[externalId |-> e, externalIdType |-> t, name |-> n] :
     e \in {EmptyString, idUser.ExternalId},
     t \in {EmptyString, idUser.ExternalIdType},
     n \in {EmptyString, str_name}}

\* The server operation the SearchIdentities handler calls (lines 111-137).
searchRoute(query) ==
  IF query.externalId # EmptyString /\ query.externalIdType # EmptyString
    THEN <<"GetIdentity">>
  ELSE IF query.name # EmptyString THEN <<"SearchIdentities">>
  ELSE <<>>

\* GET /identities: the SearchIdentities handler with the server's
\* GetIdentity and SearchIdentities.
HandleSearchIdentities ==
  /\ Idle
  /\ \E authHeader \in AuthHeaders, query \in SearchQueries,
        providerOk \in BOOLEAN :
       IF authHeader # EmptyString
         THEN LET rejected ==
                    IF ~HasPrefix(authHeader, str_bearer) THEN <<401>> ELSE <<>>
                  accessToken == TrimPrefix(authHeader, str_bearer)
                  call == searchRoute(query)
              IN IF call # <<>>
                   THEN \E r \in {IdentityLookup(provider, providerOk)} :
                          last' = [NoRequest EXCEPT
                                     !.op = "SearchIdentities",
                                     !.header = authHeader,
                                     !.token = accessToken,
                                     !.calls = call, !.err = r.err,
                                     !.providerCalled = r.providerCalled,
                                     !.providerFailed = r.providerCalled /\ r.err,
                                     !.status = rejected
                                                \o (IF r.err THEN <<500>>
                                                    ELSE <<200>>)]
                 ELSE last' = [NoRequest EXCEPT
                                 !.op = "SearchIdentities",
                                 !.header = authHeader, !.token = accessToken,
                                 !.status = rejected \o <<400>>]
       ELSE last' = [NoRequest EXCEPT !.op = "SearchIdentities", !.status = <<401>>]
  /\ UNCHANGED <<db, provider, authConfigInMemory, faults>>
  /\ UNCHANGED swapVars
  /\ UNCHANGED resolverVars

\* The response reaches the client.
Deliver ==
  /\ ~Idle
  /\ last' = NoRequest
  /\ UNCHANGED <<db, provider, authConfigInMemory, faults>>
  /\ UNCHANGED swapVars
  /\ UNCHANGED resolverVars

Next ==
  \/ HandleUpdateConfig
  \/ HandleGetConfig
  \/ HandleReload
  \/ HandleCreateToken
  \/ HandleGetIdentities
  \/ HandleSearchIdentities
  \/ Deliver

Spec == Init /\ [][Next]_vars

\* ------------------------------------------- the swap, statement by statement

\* UpdateConfig up to line 232: the provider is initialised and the settings
\* are written; a call that fails returns, one that succeeds goes on to the
\* two assignments of lines 234-235.  The store does not fail here: a call
\* whose write fails never reaches the swap.
BeginUpdateConfig(w) ==
  /\ writers[w].pc = "idle"
  /\ calls < MaxCalls
  /\ \E authConfig \in AuthConfigs :
     \E r \in {UpdateConfig(authConfig, provider, authConfigInMemory, db,
                            InOrder(updateConfigKeys(authConfig, provider)),
                            NewIO(NoFault))} :
       /\ db' = r.store
       /\ calls' = calls + 1
       /\ writers' =
            IF r.err THEN writers
            ELSE [writers EXCEPT ![w] = [pc |-> "setProvider", provider |-> r.provider,
                                         config |-> r.config, gen |-> calls + 1]]
  /\ UNCHANGED <<provider, authConfigInMemory, last, faults, providerGen,
                 configGen, seen, resolverVars>>

\* Reload up to line 299.
BeginReload(w) ==
  /\ writers[w].pc = "idle"
  /\ calls < MaxCalls
  /\ \E r \in {Reload(provider, authConfigInMemory, db, NewIO(NoFault))} :
       /\ db' = r.store
       /\ calls' = calls + 1
       /\ writers' =
            IF r.err THEN writers
            ELSE [writers EXCEPT ![w] = [pc |-> "setProvider", provider |-> r.provider,
                                         config |-> r.config, gen |-> calls + 1]]
  /\ UNCHANGED <<provider, authConfigInMemory, last, faults, providerGen,
                 configGen, seen, resolverVars>>

\* provider = newProvider (lines 234 and 300).
SetProvider(w) ==
  /\ writers[w].pc = "setProvider"
  /\ provider' = writers[w].provider
  /\ providerGen' = writers[w].gen
  /\ writers' = [writers EXCEPT ![w].pc = "setConfig"]
  /\ UNCHANGED <<db, authConfigInMemory, last, faults, calls, configGen, seen,
                 resolverVars>>

\* authConfigInMemory = authConfig (lines 235 and 301).
SetConfig(w) ==
  /\ writers[w].pc = "setConfig"
  /\ authConfigInMemory' = writers[w].config
  /\ configGen' = writers[w].gen
  /\ writers' = [writers EXCEPT ![w] = IdleWriter]
  /\ UNCHANGED <<db, provider, last, faults, calls, providerGen, seen,
                 resolverVars>>

\* A concurrent request reads the active provider and the active config at
\* one instant.
Observe ==
  /\ seen' = [provider |-> providerGen, config |-> configGen]
  /\ UNCHANGED <<db, provider, authConfigInMemory, last, faults, writers,
                 calls, providerGen, configGen, resolverVars>>

NextSwap ==
  \/ \E w \in Writers : BeginUpdateConfig(w)
  \/ \E w \in Writers : BeginReload(w)
  \/ \E w \in Writers : SetProvider(w)
  \/ \E w \in Writers : SetConfig(w)
  \/ Observe

SpecSwap == Init /\ [][NextSwap]_vars

\* ------------------------------------------------ the identity resolver

\* The longest allow-list string resolved.
MaxIdStringLen == 5

\* The characters of an allow-list string: a letter and the two separators.
ResolverAlphabet == {"u", ":", ","}

\* The strings over the alphabet of length n.
RECURSIVE StringsOfLen(_)
StringsOfLen(n) ==
  IF n = 0 THEN {EmptyString}
  ELSE {<<c>> \o t : c \in ResolverAlphabet, t \in StringsOfLen(n - 1)}

\* The allow-list strings the settings store may hold.
IdStrings == UNION {StringsOfLen(n) : n \in 0..MaxIdStringLen}

\* A pair installed by an earlier UpdateConfig.
ActiveConfig ==
  AuthConfig(EmptyString, str_github, TRUE, str_restricted, <<>>, str_clientid)

\* The entries of idString the provider may be asked for.
askedEntries(idString) ==
  IF idString = EmptyString THEN {}
  ELSE {e \in {Split(idString, ",")[i] : i \in 1..Len(Split(idString, ","))} :
          Index(e, ":") # 0}

\* A getAllowedIdentities call is about to run: any allow-list string, with
\* or without an access token, with or without an active provider, the
\* provider resolving any set of the entries.
InitResolver ==
  /\ db = EmptyStore
  /\ \/ provider = NilProvider /\ authConfigInMemory = ZeroAuthConfig
     \/ /\ provider = LoadConfig(GetProvider(str_github), ActiveConfig).provider
        /\ authConfigInMemory = ActiveConfig
  /\ last = NoRequest
  /\ faults = 0
  /\ writers = [w \in Writers |-> IdleWriter]
  /\ calls = 0
  /\ providerGen = 0
  /\ configGen = 0
  /\ seen = [provider |-> 0, config |-> 0]
  /\ \E idString \in IdStrings, accessToken \in {EmptyString, str_token} :
     \E resolvable \in (IF ~provider.nil /\ accessToken # EmptyString
                          THEN SUBSET askedEntries(idString) ELSE {{}}) :
       resolverIn = [idString |-> idString, accessToken |-> accessToken,
                     resolvable |-> resolvable]
  /\ resolverOut = NotResolved

\* getAllowedIdentities(idString, accessToken) runs against the package-level
\* provider.
Resolve ==
  /\ ~resolverOut.done
  /\ \E r \in {getAllowedIdentities(resolverIn.idString, resolverIn.accessToken,
                                     provider, resolverIn.resolvable)} :
       resolverOut' = [done |-> TRUE, identities |-> r.identities,
                       calls |-> r.calls]
  /\ UNCHANGED <<db, provider, authConfigInMemory, last, faults, swapVars,
                 resolverIn>>

NextResolver == Resolve

SpecResolver == InitResolver /\ [][NextResolver]_vars

\* ----------------------------------------------------------------- claims

\* The (externalIdType, externalId) pairs of an allow-list, in order.
RECURSIVE identityPairs(_)
identityPairs(identities) ==
  IF identities = <<>> THEN <<>>
  ELSE <<<<Head(identities).ExternalIdType, Head(identities).ExternalId>>>>
       \o identityPairs(Tail(identities))

UpdateSucceeded == last.op = "UpdateConfig" /\ ~last.err

\* The provider instance UpdateConfig(c) creates: the registry's instance
\* for c.Provider, loaded with c.
InstanceFor(c) == LoadConfig(GetProvider(c.Provider), c).provider

\* C1: a successful UpdateConfig(c) followed by GetConfig returns a config
\* with c's provider, enabled flag and access mode and an allow-list with
\* exactly the (externalIdType, externalId) pairs of c's, in order, whatever
\* the store and the active provider were before the update.
C1_RoundTrip ==
  UpdateSucceeded =>
    \A accessToken \in {EmptyString, str_token}, resolvable \in SUBSET EntryIds :
      LET got == GetConfig(accessToken, provider, db, resolvable, NewIO(NoFault)) IN
        /\ ~got.err
        /\ got.config.Provider = last.arg.Provider
        /\ got.config.Enabled = last.arg.Enabled
        /\ got.config.AccessMode = last.arg.AccessMode
        /\ identityPairs(got.config.AllowedIdentities)
             = identityPairs(last.arg.AllowedIdentities)

\* C2: UpdateConfig with an empty provider name returns an error and leaves
\* the active (provider, config) pair and every store key as they were.
C2_EmptyProviderRejected ==
  [][(last'.op = "UpdateConfig" /\ last'.arg.Provider = EmptyString)
       => /\ last'.err
          /\ db' = db
          /\ provider' = provider
          /\ authConfigInMemory' = authConfigInMemory]_vars

C2_Witness ==
  /\ last.op = "UpdateConfig"
  /\ last.arg.Provider = EmptyString
  /\ last.arg.ClientID # EmptyString
  /\ last.err
  /\ ~provider.nil
  /\ db[providerNameSetting] = str_github

\* C3: an UpdateConfig that fails because the provider cannot be
\* instantiated or its LoadConfig rejects the config issues no store write
\* and leaves the active (provider, config) pair unchanged.
C3_InitFailureTouchesNothing ==
  [][(last'.op = "UpdateConfig" /\ initProviderWithConfig(last'.arg).err)
       => /\ last'.err
          /\ last'.updates = 0
          /\ db' = db
          /\ provider' = provider
          /\ authConfigInMemory' = authConfigInMemory]_vars

C3_Witness ==
  /\ last.op = "UpdateConfig"
  /\ last.arg.Provider = str_github
  /\ last.providerFailed
  /\ last.err
  /\ ~provider.nil

\* C4: under any interleaving of UpdateConfig and Reload with concurrent
\* readers, no reader sees an active provider and an active config that
\* were installed by two different calls.
C4_NoMixedGenerations == seen.provider = seen.config

\* C5: when a store read or update fails during UpdateConfig's settings
\* write, UpdateConfig returns an error, makes no further store call and
\* leaves the active (provider, config) pair as it was.
C5_WriteFailureAborts ==
  [][(last'.op = "UpdateConfig" /\ last'.storeFailed)
       => /\ last'.err
          /\ last'.postFail = 0
          /\ provider' = provider
          /\ authConfigInMemory' = authConfigInMemory]_vars

\* A failed write after some key was written, with a pair active before.
C5_Witness ==
  /\ last.op = "UpdateConfig"
  /\ last.storeFailed
  /\ last.updates > 1
  /\ ~provider.nil
  /\ authConfigInMemory # last.arg

\* C6: a successful UpdateConfig with enabled = false leaves the
\* "configured provider" key as it was before the call.
C6_DisableKeepsConfiguredProvider ==
  [][(last'.op = "UpdateConfig" /\ ~last'.err /\ ~last'.arg.Enabled)
       => db'[providerSetting] = db[providerSetting]]_vars

C6_Witness ==
  /\ UpdateSucceeded
  /\ ~last.arg.Enabled
  /\ db[securitySetting] = str_false
  /\ db[providerSetting] = str_github

\* C7: the active provider is nil until the first successful UpdateConfig
\* or Reload; a successful call installs its own (provider, config) pair, any
\* other step leaves the pair as it was, and a provider that is not nil never
\* becomes nil again.
C7_ActivePairLifecycle ==
  /\ provider.nil
  /\ [][/\ ~provider.nil => ~provider'.nil
       /\ IF last'.op = "UpdateConfig" /\ ~last'.err
            THEN /\ provider' = InstanceFor(last'.arg)
                 /\ authConfigInMemory' = last'.arg
          ELSE IF last'.op = "Reload" /\ ~last'.err
            THEN /\ provider' = InstanceFor(last'.config)
                 /\ authConfigInMemory' = last'.config
          ELSE /\ provider' = provider
               /\ authConfigInMemory' = authConfigInMemory]_vars

\* A failed call leaves an installed pair in place.
C7_Witness ==
  /\ last.op \in {"UpdateConfig", "Reload"}
  /\ last.err
  /\ ~provider.nil
  /\ authConfigInMemory.Provider = str_github

\* C8: a store read or write or a provider call that fails inside
\* UpdateConfig, GetConfig, Reload, CreateToken or RefreshToken makes the
\* operation return an error.  (A failed GetIdentity inside the identity
\* resolver is not counted: the resolver falls back to the stub.)
C8_FailuresPropagate ==
  (last.storeFailed \/ last.providerFailed) => last.err

\* C9: after a successful UpdateConfig(c) the four generic keys hold the
\* values derived from c, and the "configured provider" key holds c.provider
\* when c.enabled, whatever the store and the active provider were before.
C9_StoreHoldsConfig ==
  UpdateSucceeded =>
    /\ db[accessModeSetting] = last.arg.AccessMode
    /\ db[allowedIdentitiesSetting]
         = Join(identityIds(last.arg.AllowedIdentities), <<",">>)
    /\ db[securitySetting] = FormatBool(last.arg.Enabled)
    /\ db[providerNameSetting] = last.arg.Provider
    /\ last.arg.Enabled => db[providerSetting] = last.arg.Provider

\* C10: after a successful UpdateConfig(c) the active config is c and the
\* active provider is the instance created for c.provider and loaded with c;
\* the pair is replaced only when no store call of the write has failed.
C10_SwapAfterWrites ==
  [][last'.op = "UpdateConfig"
       => IF last'.err
            THEN /\ provider' = provider
                 /\ authConfigInMemory' = authConfigInMemory
          ELSE /\ ~last'.storeFailed
               /\ provider' = InstanceFor(last'.arg)
               /\ authConfigInMemory' = last'.arg]_vars

\* A successful update that replaces an earlier active pair.
C10_Witness ==
  /\ UpdateSucceeded
  /\ last.updates > 0
  /\ authConfigInMemory = last.arg
  /\ provider = InstanceFor(last.arg)
  /\ db[allowedIdentitiesSetting] = idUser.Id

\* C11: Reload issues no store write: whatever its outcome, every store key
\* keeps the value it had before the call.
C11_ReloadWritesNothing ==
  [][last'.op = "Reload" => /\ last'.updates = 0
                            /\ db' = db]_vars

\* A Reload that read a configured store and installed a new pair.
C11_Witness ==
  /\ last.op = "Reload"
  /\ ~last.err
  /\ last.touched = Keys
  /\ authConfigInMemory = last.config
  /\ db = ConfiguredStore

\* C12: CreateToken and RefreshToken called while no provider is active
\* return the "no provider configured" error, call no provider method and
\* build and sign no payload, whatever the request carries.
C12_NoProviderNoToken ==
  (last.op = "CreateToken" /\ last.calls # <<>> /\ provider.nil)
    => /\ last.err
       /\ last.errKind = "NoProviderConfigured"
       /\ ~last.providerCalled
       /\ ~last.payload.built
       /\ ~last.signed

C12_Witness ==
  /\ last.op = "CreateToken"
  /\ last.calls = <<"RefreshToken">>
  /\ provider.nil
  /\ last.errKind = "NoProviderConfigured"
  /\ last.status = <<500>>

\* C13: a POST /token whose body sets neither code nor accessToken is
\* answered 400 and calls neither CreateToken nor RefreshToken nor a provider.
C13_EmptyTokenBodyRejected ==
  (last.op = "CreateToken" /\ last.code = EmptyString /\ last.token = EmptyString)
    => /\ last.status = <<400>>
       /\ last.calls = <<>>
       /\ ~last.providerCalled
       /\ ~last.signed

\* The empty body arrives while a provider is active.
C13_Witness ==
  /\ last.op = "CreateToken"
  /\ last.code = EmptyString
  /\ last.token = EmptyString
  /\ last.status = <<400>>
  /\ ~provider.nil

\* The comma-separated entries of the resolver's input that hold a colon.
resolverEntries ==
  IF resolverIn.idString = EmptyString THEN <<>>
  ELSE SelectSeq(Split(resolverIn.idString, ","),
                 LAMBDA e : \E i \in 1..Len(e) : e[i] = ":")

\* The position of the first colon of an entry that holds one.
firstColon(e) ==
  CHOOSE k \in 1..Len(e) : e[k] = ":" /\ \A j \in 1..(k - 1) : e[j] # ":"

\* C14: the resolver drops every entry without a colon and goes on; its
\* output holds exactly one identity for each entry with a colon, in the
\* order of the entries, with or without a provider and whatever the provider
\* answers.
C14_OneIdentityPerEntry ==
  resolverOut.done =>
    /\ Len(resolverOut.identities) = Len(resolverEntries)
    /\ \A i \in 1..Len(resolverEntries) :
         LET identity == resolverOut.identities[i] IN
           identity.ExternalIdType \o <<":">> \o identity.ExternalId
             = resolverEntries[i]

\* An entry without a colon stands before one with a colon, and the provider
\* fails for that one.
C14_Witness ==
  /\ resolverOut.done
  /\ resolverIn.idString = <<"u", ",", "u", ":", "u">>
  /\ ~provider.nil
  /\ resolverIn.accessToken # EmptyString
  /\ resolverIn.resolvable = {}
  /\ Len(resolverOut.identities) = 1

\* C15: with no active provider or an empty access token, each entry e with
\* a colon gives an identity whose id is e, whose externalIdType is the text
\* before the first colon, whose externalId is all the text after it and whose
\* type is "identity".
C15_StubIdentity ==
  (resolverOut.done /\ (provider.nil \/ resolverIn.accessToken = EmptyString))
    => /\ Len(resolverOut.identities) = Len(resolverEntries)
       /\ \A i \in 1..Len(resolverEntries) :
            LET e == resolverEntries[i]
                k == firstColon(e)
                identity == resolverOut.identities[i]
            IN /\ identity.Id = e
               /\ identity.ExternalIdType = SubSeq(e, 1, k - 1)
               /\ identity.ExternalId = SubSeq(e, k + 1, Len(e))
               /\ identity.Type = str_identity

\* The external id of the entry holds a colon itself.
C15_Witness ==
  /\ resolverOut.done
  /\ provider.nil
  /\ resolverIn.idString = <<"u", ":", "u", ":", "u">>
  /\ Len(resolverOut.identities) = 1
  /\ resolverOut.identities[1].ExternalId = <<"u", ":", "u">>

\* The entries of an allow-list string that hold a colon, in order.
wellFormedEntries(idString) ==
  IF idString = EmptyString THEN <<>>
  ELSE SelectSeq(Split(idString, ","), LAMBDA e : Index(e, ":") # 0)

\* C16: the resolver calls the provider's GetIdentity(externalId, type,
\* accessToken) for an entry only when a provider is active and the access
\* token is not empty; a call that succeeds gives the provider's record, one
\* that fails gives the entry's stub and no error; Reload never calls it.
C16_ProviderUseInResolver ==
  last.op \in {"GetConfig", "Reload"} =>
    LET entries == wellFormedEntries(db[allowedIdentitiesSetting])
        out == last.config.AllowedIdentities
        live == last.op = "GetConfig" /\ ~provider.nil /\ last.token # EmptyString
        skipped == last.storeFailed /\ (last.op = "Reload" \/ last.err)
    IN /\ last.op = "Reload" => last.identityCalls = <<>>
       /\ ~live => last.identityCalls = <<>>
       /\ ~skipped =>
            /\ live => last.identityCalls
                         = [i \in 1..Len(entries) |->
                              GetIdentityCall(SplitN2(entries[i], ":"), last.token)]
            /\ Len(out) = Len(entries)
            /\ \A i \in 1..Len(entries) :
                 LET parts == SplitN2(entries[i], ":") IN
                   out[i] = IF live /\ entries[i] \in last.resolved
                              THEN ProviderGetIdentity(provider, parts[2], parts[1],
                                                       last.token, last.resolved).identity
                            ELSE stubIdentity(entries[i], parts)
            /\ (last.op = "GetConfig" /\ last.err)
                 => GetProvider(db[providerNameSetting]).nil

\* The provider resolves one of two entries and fails for the other.
C16_Witness ==
  /\ last.op = "GetConfig"
  /\ ~last.err
  /\ ~provider.nil
  /\ Len(last.identityCalls) = 2
  /\ Cardinality(last.resolved) = 1
  /\ last.config.AllowedIdentities[1].Login # last.config.AllowedIdentities[2].Login

\* C17: in a claims payload built by CreateToken or RefreshToken the id list
\* is as long as the identity list and its i-th element is the id of the
\* i-th identity record.
C17_IdListDerived ==
  last.payload.built =>
    /\ Len(last.payload.idList) = Len(last.payload.identities)
    /\ \A i \in 1..Len(last.payload.identities) :
         last.payload.idList[i] = last.payload.identities[i].Id

C17_Witness ==
  /\ last.op = "CreateToken"
  /\ last.signed
  /\ last.payload.idList = <<idUser.Id, idGroup.Id>>

\* C18: GetConfig returns an error whenever the stored provider name is not
\* the name of a registered provider, the empty name included.
C18_UnknownProviderFails ==
  (last.op = "GetConfig" /\ GetProvider(db[providerNameSetting]).nil) => last.err

\* The store names a provider that is not registered and every read worked.
C18_Witness ==
  /\ last.op = "GetConfig"
  /\ db[providerNameSetting] = str_bogus
  /\ ~last.storeFailed
  /\ last.config.Provider = str_bogus
  /\ last.err

\* C19: a handler writes one response per request, and a request it has
\* answered with an error never reaches the server operation.
C19_OneResponse ==
  /\ Len(last.status) <= 1
  /\ (last.header # EmptyString /\ ~HasPrefix(last.header, str_bearer))
       => last.calls = <<>>
  /\ (last.op = "UpdateConfig" /\ last.arg.Provider = EmptyString)
       => last.calls = <<>>

\* C20: the settings write of UpdateConfig never writes an empty string: a
\* key whose new value is empty is neither read nor updated and keeps its
\* stored value.
C20_EmptyValuesSkipped ==
  [][last'.op = "UpdateConfig" =>
       LET init == initProviderWithConfig(last'.arg) IN
         IF init.err THEN last'.touched = {} /\ db' = db
         ELSE LET settings == configSettings(last'.arg, init.provider, provider) IN
                \A k \in Keys :
                  /\ db'[k] # db[k] => db'[k] # EmptyString
                  /\ (k \notin DOMAIN settings \/ settings[k] = EmptyString)
                       => /\ k \notin last'.touched
                          /\ db'[k] = db[k]]_vars

\* A successful write of a config with an empty allow-list over a stored one.
C20_Witness ==
  /\ UpdateSucceeded
  /\ last.arg.AllowedIdentities = <<>>
  /\ ~last.arg.Enabled
  /\ allowedIdentitiesSetting \notin last.touched
  /\ db[allowedIdentitiesSetting] # EmptyString
  /\ last.updates = 4

\* C21: GetConfig is read-only: whatever its outcome, it issues no store
\* update, every store key keeps its value, and the active provider and the
\* active config are the ones of before the call.
C21_GetConfigReadOnly ==
  [][last'.op = "GetConfig" => /\ last'.updates = 0
                               /\ db' = db
                               /\ provider' = provider
                               /\ authConfigInMemory' = authConfigInMemory]_vars

\* A successful GetConfig that read every key while a pair is active whose
\* allow-list is not the stored one.
C21_Witness ==
  /\ last.op = "GetConfig"
  /\ ~last.err
  /\ last.touched = Keys
  /\ ~provider.nil
  /\ last.config.AllowedIdentities # authConfigInMemory.AllowedIdentities

\* C22: POST /token with a non-empty code calls server.CreateToken(code)
\* and not server.RefreshToken, whether or not accessToken is set;
\* server.RefreshToken(accessToken) is called only when code is empty and
\* accessToken is not; a request that sets one of the fields calls exactly
\* one of the two.
C22_TokenDispatch ==
  last.op = "CreateToken" =>
    /\ last.code # EmptyString
         => last.calls = <<"CreateToken">> /\ last.callArg = last.code
    /\ (last.code = EmptyString /\ last.token # EmptyString)
         => last.calls = <<"RefreshToken">> /\ last.callArg = last.token
    /\ (\E i \in DOMAIN last.calls : last.calls[i] = "RefreshToken")
         => last.code = EmptyString /\ last.token # EmptyString
    /\ (last.code # EmptyString \/ last.token # EmptyString)
         => Len(last.calls) = 1

\* Both fields are set and a provider is active.
C22_Witness ==
  /\ last.op = "CreateToken"
  /\ last.code # EmptyString
  /\ last.token # EmptyString
  /\ last.calls = <<"CreateToken">>
  /\ last.providerCalled

====
